---- MODULE Spec2Model ----
(***************************************************************************)
(* A model of tg2hugo.py: the reconstruction of Markdown from raw text and *)
(* entities, the rewriting of t.me references into relref links, and the   *)
(* two-pass day pipeline of run().                                         *)
(*                                                                         *)
(* Text is a sequence of tokens.  A token is one character, except for two *)
(* literals that no pattern of the program can match a part of: the head   *)
(* "https://t.me/" that every t.me pattern starts with, and the shortcode  *)
(* {{< relref "..." >}} that the rewriter emits.                           *)
(***************************************************************************)
EXTENDS Integers, Sequences, FiniteSets, TLC

----------------------------------------------------------------------------
(* Bounds of the model. *)

\* items (plain characters or references) in a text given to the rewriter
MaxItems == 2
\* ExternalLink descriptors of the message given to convert_one_with_links
MaxLinks == 1

----------------------------------------------------------------------------
(* Sequences. *)

Max(a, b) == IF a >= b THEN a ELSE b

Slice(s, a, b) == SubSeq(s, a, b - 1)

RECURSIVE Flatten(_)
Flatten(ss) == IF ss = <<>> THEN <<>> ELSE Head(ss) \o Flatten(Tail(ss))

Contains(s, t) == \E i \in 1..Len(s) : s[i] = t

\* F of the value of v: v is evaluated once
Bind(v, F(_)) == CHOOSE r \in {F(x) : x \in {v}} : TRUE

\* all sequences over S of length at most n
SeqsUpTo(S, n) == UNION {[1..k -> S] : k \in 0..n}

----------------------------------------------------------------------------
(* Character classes of the regular expressions. *)

TME == "https://t.me/"

DigitChars == <<"0", "1", "2", "3", "4", "5", "6", "7", "8", "9">>
Digit == {DigitChars[i] : i \in 1..Len(DigitChars)}
DigitVal(d) == (CHOOSE i \in 1..Len(DigitChars) : DigitChars[i] = d) - 1

Letter == {"a", "b", "c", "d", "e", "f", "g", "h", "i", "j", "k", "l", "m",
           "n", "o", "p", "q", "r", "s", "t", "u", "v", "w", "x", "y", "z",
           "T", "A"}

\* [\w_]
IsWord(t) == t \in Digit \cup Letter \cup {"_"}

\* int(m.group("id"))
RECURSIVE ParseInt(_)
ParseInt(ds) ==
    IF ds = <<>> THEN 0
    ELSE ParseInt(SubSeq(ds, 1, Len(ds) - 1)) * 10 + DigitVal(ds[Len(ds)])

\* the index after the longest run of [\w_] that starts at j
RECURSIVE WordRunEnd(_, _)
WordRunEnd(s, j) ==
    IF j <= Len(s) /\ IsWord(s[j]) THEN WordRunEnd(s, j + 1) ELSE j

\* the index after the longest run of \d that starts at j
RECURSIVE DigitRunEnd(_, _)
DigitRunEnd(s, j) ==
    IF j <= Len(s) /\ s[j] \in Digit THEN DigitRunEnd(s, j + 1) ELSE j

----------------------------------------------------------------------------
(* The URL shape shared by the patterns:                                   *)
(*     https?://t\.me/(?:c/\d+/)?[\w_]+/(?P<id>\d+)                        *)
(* matched by backtracking: the optional group is tried first, and within  *)
(* a branch the id takes the longest run of digits that lets the rest of   *)
(* the pattern match.                                                      *)

\* (?:c/\d+/) at j: the index after it, or 0
GroupEnd(s, j) ==
    IF j + 1 <= Len(s) /\ s[j] = "c" /\ s[j + 1] = "/"
    THEN Bind(DigitRunEnd(s, j + 2), LAMBDA d :
             IF d > j + 2 /\ d <= Len(s) /\ s[d] = "/" THEN d + 1 ELSE 0)
    ELSE 0

\* [\w_]+/\d+ at j: where the id starts and where its longest run ends
NameId(s, j) ==
    Bind(WordRunEnd(s, j), LAMBDA e :
        IF e > j /\ e <= Len(s) /\ s[e] = "/"
        THEN Bind(DigitRunEnd(s, e + 1), LAMBDA d :
                 IF d > e + 1 THEN <<[idStart |-> e + 1, idMax |-> d]>>
                 ELSE <<>>)
        ELSE <<>>)

\* the branches of the URL shape at i (s[i] = TME), in backtracking order
UrlBranches(s, i) ==
    Bind(GroupEnd(s, i + 1), LAMBDA g :
        Flatten([k \in 1..(IF g > 0 THEN 2 ELSE 1) |->
                    NameId(s, IF g > 0 /\ k = 1 THEN g ELSE i + 1)]))

NoMatch == [ok |-> FALSE, idStart |-> 0, end |-> 0]

\* the first way to match the URL shape at i such that what follows the id
\* (at index e) is accepted by Ok
UrlMatch(s, i, Ok(_, _)) ==
    IF ~(i <= Len(s) /\ s[i] = TME) THEN NoMatch
    ELSE Bind(UrlBranches(s, i), LAMBDA brs :
         Bind({x \in (1..Len(brs)) \X (1..Len(s) + 1) :
                  /\ brs[x[1]].idStart + 1 <= x[2]
                  /\ x[2] <= brs[x[1]].idMax
                  /\ Ok(s, x[2])}, LAMBDA good :
              IF good = {} THEN NoMatch
              ELSE Bind(CHOOSE x \in good :
                            \A y \in good :
                                \/ x[1] < y[1]
                                \/ x[1] = y[1] /\ x[2] >= y[2], LAMBDA best :
                       [ok |-> TRUE, idStart |-> brs[best[1]].idStart,
                        end |-> best[2]])))

----------------------------------------------------------------------------
(* The three patterns of rewrite_internal_links, each tried at index i of  *)
(* s.  A match gives the index after it, the matched text, the groups      *)
(* "text" (label) and "url", and int(group "id").                          *)

NoLink == [ok |-> FALSE, end |-> 0, whole |-> <<>>, label |-> <<>>,
           url |-> <<>>, id |-> 0]

LinkMatch(s, i, end, label, urlFrom, u) ==
    [ok |-> TRUE, end |-> end, whole |-> Slice(s, i, end), label |-> label,
     url |-> Slice(s, urlFrom, u.end), id |-> ParseInt(Slice(s, u.idStart, u.end))]

\* the index of the first "]" at or after j, or 0
RECURSIVE FirstClose(_, _)
FirstClose(s, j) ==
    IF j > Len(s) THEN 0 ELSE IF s[j] = "]" THEN j ELSE FirstClose(s, j + 1)

FollowedByParen(s, e) == e <= Len(s) /\ s[e] = ")"
FollowedByAngle(s, e) == e <= Len(s) /\ s[e] = ">"
NotFollowedByParen(s, e) == ~(e <= Len(s) /\ s[e] = ")")
FollowedByAnything(s, e) == TRUE

\* \[(?P<text>[^\]]+)\]\((?P<url>...)\)
TG_MD_LINK_RE(s, i) ==
    IF ~(i <= Len(s) /\ s[i] = "[") THEN NoLink
    ELSE Bind(FirstClose(s, i + 1), LAMBDA r :
         IF r <= i + 1 \/ r + 2 > Len(s) \/ s[r + 1] # "("
         THEN NoLink
         ELSE Bind(UrlMatch(s, r + 2, FollowedByParen), LAMBDA u :
              IF ~u.ok
              THEN NoLink
              ELSE LinkMatch(s, i, u.end + 1, Slice(s, i + 1, r), r + 2, u)))

\* <(?P<url>...)>
TG_AUTOLINK_RE(s, i) ==
    IF ~(i + 1 <= Len(s) /\ s[i] = "<") THEN NoLink
    ELSE Bind(UrlMatch(s, i + 1, FollowedByAngle), LAMBDA u :
         IF ~u.ok
         THEN NoLink
         ELSE LinkMatch(s, i, u.end + 1, Slice(s, i + 1, u.end), i + 1, u))

\* (?<!\()(?<!<)(?P<url>...)(?!\))
TG_BARE_URL_RE(s, i) ==
    IF i > 1 /\ s[i - 1] \in {"(", "<"} THEN NoLink
    ELSE Bind(UrlMatch(s, i, NotFollowedByParen), LAMBDA u :
         IF ~u.ok
         THEN NoLink
         ELSE LinkMatch(s, i, u.end, Slice(s, i, u.end), i, u))

----------------------------------------------------------------------------
(* rewrite_internal_links *)

\* {{< relref "rel" >}}
Relref(rel) == "{{< relref \"" \o rel \o "\" >}}"

\* [label]({{< relref "rel" >}})
LinkTo(label, rel) == <<"[">> \o label \o <<"]", "(", Relref(rel), ")">>

\* id2relref.get(pid), and "if not rel"
Resolves(pid, id2relref) == pid \in DOMAIN id2relref /\ id2relref[pid] # ""

SubMd(m, id2relref) ==
    IF Resolves(m.id, id2relref) THEN LinkTo(m.label, id2relref[m.id])
    ELSE m.whole

SubAuto(m, id2relref) ==
    IF Resolves(m.id, id2relref) THEN LinkTo(m.url, id2relref[m.id])
    ELSE m.whole

SubBare(m, id2relref) ==
    IF Resolves(m.id, id2relref) THEN LinkTo(m.url, id2relref[m.id])
    ELSE m.whole

\* pattern.sub(repl, s): leftmost matches, left to right, none overlapping
RECURSIVE MdPass(_, _, _)
MdPass(s, i, id2relref) ==
    IF i > Len(s) THEN <<>>
    ELSE Bind(TG_MD_LINK_RE(s, i), LAMBDA m :
         IF m.ok THEN SubMd(m, id2relref) \o MdPass(s, m.end, id2relref)
         ELSE <<s[i]>> \o MdPass(s, i + 1, id2relref))

RECURSIVE AutoPass(_, _, _)
AutoPass(s, i, id2relref) ==
    IF i > Len(s) THEN <<>>
    ELSE Bind(TG_AUTOLINK_RE(s, i), LAMBDA m :
         IF m.ok THEN SubAuto(m, id2relref) \o AutoPass(s, m.end, id2relref)
         ELSE <<s[i]>> \o AutoPass(s, i + 1, id2relref))

RECURSIVE BarePass(_, _, _)
BarePass(s, i, id2relref) ==
    IF i > Len(s) THEN <<>>
    ELSE Bind(TG_BARE_URL_RE(s, i), LAMBDA m :
         IF m.ok THEN SubBare(m, id2relref) \o BarePass(s, m.end, id2relref)
         ELSE <<s[i]>> \o BarePass(s, i + 1, id2relref))

\* the three passes, each over the result of the one before
rewrite_internal_links(md, id2relref) ==
    Bind(md, LAMBDA text :
    Bind(MdPass(text, 1, id2relref), LAMBDA after_md :
    Bind(AutoPass(after_md, 1, id2relref), LAMBDA after_auto :
         BarePass(after_auto, 1, id2relref))))

----------------------------------------------------------------------------
(* Text in UTF-16 code units.  A cell is one code point (or one literal    *)
(* token) of a Python str together with src: the 1-based offset, in code   *)
(* units, that it had in the raw text of the message, or 0 when the        *)
(* program inserted it.  src takes no part in any computation.             *)

\* code points above U+FFFF: two code units each
Astral == {"U+1F600", "U+1F680"}

TMEChars == <<"h", "t", "t", "p", "s", ":", "/", "/", "t", ".", "m", "e", "/">>

\* the length in UTF-16 code units
Width(ch) ==
    IF ch \in Astral THEN 2 ELSE IF ch = TME THEN Len(TMEChars) ELSE 1

Cell(ch, src) == [ch |-> ch, src |-> src]

\* text the program inserts
Markup(s) == [i \in 1..Len(s) |-> Cell(s[i], 0)]

\* text without the offsets
Plain(cells) == [i \in 1..Len(cells) |-> cells[i].ch]

\* the raw text s, each cell with its offset; at is the offset of the first
RECURSIVE Tag(_, _)
Tag(s, at) ==
    IF s = <<>> THEN <<>>
    ELSE <<Cell(Head(s), at)>> \o Tag(Tail(s), at + Width(Head(s)))

\* s.encode("utf-16-le"): k is the place of the unit in its code point
EncodeCell(c) == [k \in 1..Width(c.ch) |-> [ch |-> c.ch, src |-> c.src, k |-> k]]

Encode(cells) == Flatten([i \in 1..Len(cells) |-> EncodeCell(cells[i])])

\* the length of the raw text s in code units
UnitLen(s) == Len(Encode(Tag(s, 1)))

Returned(text) == [raised |-> FALSE, text |-> text]
Raised == [raised |-> TRUE, text |-> <<>>]

\* a whole code point (or literal) starts at unit i
WholeAt(u, i) ==
    /\ u[i].k = 1
    /\ i + Width(u[i].ch) - 1 <= Len(u)
    /\ \A k \in 1..Width(u[i].ch) : /\ u[i + k - 1].ch = u[i].ch
                                    /\ u[i + k - 1].k = k

\* unit i is a later unit of a whole code point
InWhole(u, i) ==
    /\ u[i].k > 1
    /\ i - u[i].k + 1 >= 1
    /\ WholeAt(u, i - u[i].k + 1)
    /\ u[i - u[i].k + 1].ch = u[i].ch

\* bytes.decode("utf-16-le"): a surrogate without its pair raises
\* UnicodeDecodeError; a part of the literal TME is the characters it is
Decode(u) ==
    LET keep == {i \in 1..Len(u) : ~InWhole(u, i)}
        nth(n) == CHOOSE i \in keep : Cardinality({j \in keep : j <= i}) = n
        cellAt(i) == IF WholeAt(u, i) THEN Cell(u[i].ch, u[i].src)
                     ELSE Cell(TMEChars[u[i].k],
                               IF u[i].src = 0 THEN 0 ELSE u[i].src + u[i].k - 1)
    IN  IF \E i \in keep : ~WholeAt(u, i) /\ u[i].ch \in Astral THEN Raised
        ELSE Returned([n \in 1..Cardinality(keep) |-> cellAt(nth(n))])

Min(a, b) == IF a <= b THEN a ELSE b

\* b[a:b_end] of Python, in units from 0: out-of-range bounds are clipped
PySlice(u, a, b_end) == SubSeq(u, Min(a, Len(u)) + 1, Min(b_end, Len(u)))

\* s[start_units:end_units]: the slice by code points
codepoint_slice(s, start_units, end_units) ==
    Returned(SubSeq(s, Min(start_units, Len(s)) + 1, Min(end_units, Len(s))))

utf16_slice(s, start_units, end_units) ==
    Decode(PySlice(Encode(s), start_units, end_units))

utf16_splice(s, start_units, end_units, insert) ==
    Bind(Encode(s), LAMBDA b :
        Decode(PySlice(b, 0, start_units) \o Encode(insert)
                   \o PySlice(b, end_units, Len(b))))

----------------------------------------------------------------------------
(* build_markdown_from_entities.  An entity is a record; a field that is   *)
(* None or missing is <<>>, a present number n is <<n>>.                   *)

\* the backtick character (a string of the model cannot hold it)
BQ == "backtick"

ENTITY_MARKS ==
    [MessageEntityBold      |-> [open |-> <<"*", "*">>, close |-> <<"*", "*">>],
     MessageEntityItalic    |-> [open |-> <<"*">>, close |-> <<"*">>],
     MessageEntityUnderline |-> [open |-> <<"<", "u", ">">>,
                                 close |-> <<"<", "/", "u", ">">>],
     MessageEntityStrike    |-> [open |-> <<"~", "~">>, close |-> <<"~", "~">>],
     MessageEntitySpoiler   |->
         [open |-> <<"<", "s", "p", "a", "n", " ", "c", "l", "a", "s", "s",
                     "=", "\"", "s", "p", "o", "i", "l", "e", "r", "\"", ">">>,
          close |-> <<"<", "/", "s", "p", "a", "n", ">">>],
     MessageEntityCode      |-> [open |-> <<BQ>>, close |-> <<BQ>>],
     MessageEntityPre       |-> [open |-> <<BQ, BQ, BQ>>,
                                 close |-> <<BQ, BQ, BQ>>]]

\* txt.replace("[", "\\[").replace("]", "\\]")
EscapeBrackets(txt) ==
    Flatten([i \in 1..Len(txt) |->
                IF txt[i].ch \in {"[", "]"} THEN <<Cell("\\", 0), txt[i]>>
                ELSE <<txt[i]>>])

\* the replacement text of entity e of kind et over content; the target of
\* a link is markup, also when it repeats the content
Replacement(e, content) ==
    IF e.type = "MessageEntityTextUrl"
    THEN Markup(<<"[">>) \o EscapeBrackets(content) \o Markup(<<"]", "(">>)
             \o Markup(e.url) \o Markup(<<")">>)
    ELSE IF e.type = "MessageEntityUrl"
    THEN Markup(<<"[">>) \o content \o Markup(<<"]", "(">>)
             \o Markup(Plain(content)) \o Markup(<<")">>)
    ELSE IF e.type = "MessageEntityPre"
    THEN Markup(<<BQ, BQ, BQ>> \o e.language \o <<"\n">>) \o content
             \o Markup(<<"\n", BQ, BQ, BQ>>)
    ELSE Markup(ENTITY_MARKS[e.type].open) \o content
             \o Markup(ENTITY_MARKS[e.type].close)

\* does the loop over the entities append a span for e
MakesSpan(e) ==
    /\ e.offset # <<>>
    /\ e.length # <<>>
    /\ \/ e.type = "MessageEntityTextUrl" /\ e.url # <<>>
       \/ e.type = "MessageEntityUrl"
       \/ e.type \in DOMAIN ENTITY_MARKS

\* the spans of the entities, in their order; raised when a slice raises
RECURSIVE Spans(_, _)
Spans(raw, entities) ==
    IF entities = <<>> THEN Returned(<<>>)
    ELSE Bind(Spans(raw, Tail(entities)), LAMBDA rest :
         Bind(Head(entities), LAMBDA e :
             IF ~MakesSpan(e) THEN rest
             ELSE Bind(utf16_slice(raw, e.offset[1],
                                   e.offset[1] + e.length[1]), LAMBDA content :
                  IF content.raised \/ rest.raised THEN Raised
                  ELSE Returned(<<[start |-> e.offset[1],
                                   end |-> e.offset[1] + e.length[1],
                                   repl |-> Replacement(e, content.text)]>>
                                    \o rest.text))))

\* spans.sort(key=lambda x: x[1], reverse=True): stable
RECURSIVE SortByStartDesc(_)
SortByStartDesc(spans) ==
    IF spans = <<>> THEN <<>>
    ELSE LET x == Head(spans)
             rest == SortByStartDesc(Tail(spans))
         IN  SelectSeq(rest, LAMBDA y : y.start > x.start) \o <<x>>
                 \o SelectSeq(rest, LAMBDA y : y.start <= x.start)

\* for _kind, s, e, repl in spans: out = _utf16_splice(out, s, e, repl)
RECURSIVE ApplySpans(_, _)
ApplySpans(out, spans) ==
    IF spans = <<>> THEN Returned(out)
    ELSE Bind(utf16_splice(out, Head(spans).start, Head(spans).end,
                           Head(spans).repl), LAMBDA next :
         IF next.raised THEN Raised ELSE ApplySpans(next.text, Tail(spans)))

\* build_markdown_from_entities over cells
BuildCells(raw, entities) ==
    IF raw = <<>> THEN Returned(<<>>)
    ELSE IF entities = <<>> THEN Returned(raw)
    ELSE Bind(Spans(raw, entities), LAMBDA spans :
         IF spans.raised THEN Raised
         ELSE IF spans.text = <<>> THEN Returned(raw)
         ELSE ApplySpans(raw, SortByStartDesc(spans.text)))

build_markdown_from_entities(raw_text, entities) ==
    Bind(BuildCells(Tag(raw_text, 1), entities), LAMBDA r :
        [raised |-> r.raised, text |-> Plain(r.text)])

----------------------------------------------------------------------------
(* normalize_markdown *)

IsSpace(t) == t \in {" ", "\n", "\t", "\r"}

\* the index after the longest run of \s that starts at j
RECURSIVE SpaceRunEnd(_, _)
SpaceRunEnd(s, j) ==
    IF j <= Len(s) /\ IsSpace(s[j]) THEN SpaceRunEnd(s, j + 1) ELSE j

\* str.strip()
RECURSIVE RStrip(_)
RStrip(s) ==
    IF s # <<>> /\ IsSpace(s[Len(s)]) THEN RStrip(SubSeq(s, 1, Len(s) - 1))
    ELSE s

Strip(s) == RStrip(SubSeq(s, SpaceRunEnd(s, 1), Len(s)))

\* md.replace("\r\n", "\n")
RECURSIVE CrLfToLf(_, _)
CrLfToLf(s, i) ==
    IF i > Len(s) THEN <<>>
    ELSE IF i < Len(s) /\ s[i] = "\r" /\ s[i + 1] = "\n"
         THEN <<"\n">> \o CrLfToLf(s, i + 2)
         ELSE <<s[i]>> \o CrLfToLf(s, i + 1)

\* \[(.*?)\]\((\s*)\) tried after a "[": the index of the first "]" from r
\* that "(", blanks and ")" follow, with no line break before it; or 0
RECURSIVE EmptyTargetClose(_, _)
EmptyTargetClose(s, r) ==
    IF r + 2 > Len(s) THEN 0
    ELSE IF /\ s[r] = "]"
            /\ s[r + 1] = "("
            /\ SpaceRunEnd(s, r + 2) <= Len(s)
            /\ s[SpaceRunEnd(s, r + 2)] = ")"
         THEN r
         ELSE IF s[r] = "\n" THEN 0 ELSE EmptyTargetClose(s, r + 1)

\* re.sub(r"\[(.*?)\]\((\s*)\)", r"[\1](#)", md)
RECURSIVE EmptyTargetPass(_, _)
EmptyTargetPass(s, i) ==
    IF i > Len(s) THEN <<>>
    ELSE LET r == IF s[i] = "[" THEN EmptyTargetClose(s, i + 1) ELSE 0
         IN  IF r # 0
             THEN <<"[">> \o Slice(s, i + 1, r) \o <<"]", "(", "#", ")">>
                      \o EmptyTargetPass(s, SpaceRunEnd(s, r + 2) + 1)
             ELSE <<s[i]>> \o EmptyTargetPass(s, i + 1)

normalize_markdown(md) ==
    Strip(EmptyTargetPass(CrLfToLf(md, 1), 1)) \o <<"\n">>

----------------------------------------------------------------------------
(* tg_ids_from_links_list, and the "See also" fallback of                  *)
(* convert_one_with_links.                                                 *)

\* TG_POST_ID_RE.search(url): int(m.group(1)) of the leftmost match, if any
RECURSIVE SearchPostId(_, _)
SearchPostId(url, i) ==
    IF i > Len(url) THEN <<>>
    ELSE LET u == UrlMatch(url, i, FollowedByAnything)
         IN  IF u.ok THEN <<ParseInt(Slice(url, u.idStart, u.end))>>
             ELSE SearchPostId(url, i + 1)

\* the first occurrence of each element, in order
RECURSIVE Uniq(_)
Uniq(ids) ==
    IF ids = <<>> THEN <<>>
    ELSE LET f == Uniq(SubSeq(ids, 1, Len(ids) - 1))
         IN  IF Contains(f, ids[Len(ids)]) THEN f ELSE Append(f, ids[Len(ids)])

tg_ids_from_links_list(links) ==
    Uniq(Flatten([k \in 1..Len(links) |-> SearchPostId(links[k].url, 1)]))

\* str(pid)
RECURSIVE DigitsOf(_)
DigitsOf(n) ==
    IF n < 10 THEN <<DigitChars[n + 1]>>
    ELSE DigitsOf(n \div 10) \o <<DigitChars[(n % 10) + 1]>>

\* the first character of the token is a word character
IsWordStart(t) == IsWord(t) \/ t = TME

\* re.search(rf"t\.me/(?:c/\d+/)?[\w_]+/{pid}\b", body_md)
MentionsPost(body_md, pid) ==
    \E i \in 1..Len(body_md) :
        /\ body_md[i] = TME
        /\ \E k \in 1..Len(UrlBranches(body_md, i)) :
              LET b == UrlBranches(body_md, i)[k]
              IN  /\ Slice(body_md, b.idStart, b.idMax) = DigitsOf(pid)
                  /\ \/ b.idMax > Len(body_md)
                     \/ ~IsWordStart(body_md[b.idMax])

\* the rels of the entries to append for the ids of links
RECURSIVE ExtrasFor(_, _, _)
ExtrasFor(link_ids, body_md, id2relref) ==
    IF link_ids = <<>> THEN <<>>
    ELSE LET pid == Head(link_ids)
             rest == ExtrasFor(Tail(link_ids), body_md, id2relref)
         IN  IF pid \in DOMAIN id2relref /\ ~MentionsPost(body_md, pid)
             THEN <<id2relref[pid]>> \o rest
             ELSE rest

\* what the f-string '{{< relref "{rel}" >}}' of an entry evaluates to: the
\* doubled braces of an f-string are single braces in its value
EntryRef(rel) == "{< relref \"" \o rel \o "\" >}"

\* the appended block: a blank line, the bold heading ("See also:" in
\* Russian), and one line for each entry
RECURSIVE SeeAlsoLines(_)
SeeAlsoLines(rels) ==
    IF rels = <<>> THEN <<>>
    ELSE <<"-", " ", EntryRef(Head(rels))>>
             \o (IF Len(rels) > 1 THEN <<"\n">> ELSE <<>>)
             \o SeeAlsoLines(Tail(rels))

SeeAlsoBlock(rels) ==
    <<"\n", "\n", "**See also:**", "\n">> \o SeeAlsoLines(rels) \o <<"\n">>

\* the entity types that make both converters rebuild the body from raw_text
RichTypes ==
    DOMAIN ENTITY_MARKS \cup {"MessageEntityTextUrl", "MessageEntityUrl"}

has_rich_entities(entities) ==
    \E k \in 1..Len(entities) : entities[k].type \in RichTypes

\* The choice of the body's source text.  The messages of the model carry no
\* text_html, so the html2md branch is never taken.
BodySource(msg) ==
    Bind(Strip(msg.raw_text), LAMBDA raw_text :
    Bind(Strip(msg.text_markdown), LAMBDA text_md :
        IF has_rich_entities(msg.entities)
        THEN build_markdown_from_entities(raw_text, msg.entities)
        ELSE Returned(IF text_md # <<>> THEN text_md ELSE raw_text)))

\* the rest of convert_one_with_links once the source text src is chosen and
\* normalized to body0
ConvertBody(src, body0, links, skip_empty, id2relref) ==
    Bind(rewrite_internal_links(body0, id2relref), LAMBDA before :
    Bind(rewrite_internal_links(before, id2relref), LAMBDA after :
    Bind(IF after = before
         THEN ExtrasFor(tg_ids_from_links_list(links), after, id2relref)
         ELSE <<>>, LAMBDA extras :
    Bind(src.raised \/ (skip_empty /\ Strip(body0) = <<>>), LAMBDA none :
        [raised    |-> src.raised,
         skipped   |-> ~src.raised /\ none,
         rewritten |-> IF none THEN <<>> ELSE after,
         extras    |-> IF none THEN <<>> ELSE extras,
         body_md   |-> IF none THEN <<>>
                       ELSE IF extras # <<>> THEN after \o SeeAlsoBlock(extras)
                       ELSE after]))))

\* The body part of convert_one_with_links, for a message that has a date.
convert_one_with_links(msg, skip_empty, id2relref) ==
    Bind(BodySource(msg), LAMBDA src :
    Bind(normalize_markdown(src.text), LAMBDA body0 :
        ConvertBody(src, body0, msg.links, skip_empty, id2relref)))

----------------------------------------------------------------------------
(* Days, titles and slugs of run(). *)

\* A date_utc is <<>> when the message has none, else <<[day, hour]>>: the
\* day of January 2025 and the hour of an ISO timestamp in UTC.  A time zone
\* is given by its name.
UtcOffset(tz_name) == IF tz_name = "Europe/Moscow" THEN 3 ELSE 0

\* dt.astimezone(ZoneInfo(tz_name))
to_site_dt(iso_utc, tz_name) ==
    LET h == iso_utc.hour + UtcOffset(tz_name)
    IN  [day  |-> iso_utc.day + (h \div 24),
         hour |-> h % 24,
         off  |-> UtcOffset(tz_name)]

\* strftime("%Y-%m-%d"), for the days 1..9 of the model
DayKey(d) == "2025-01-0" \o ToString(d)

\* <<>> is None
local_day_key(msg, tz_name) ==
    IF msg.date_utc = <<>> THEN <<>>
    ELSE <<DayKey(to_site_dt(msg.date_utc[1], tz_name).day)>>

_has_text(m) ==
    Strip(IF m.text_markdown # <<>> THEN m.text_markdown ELSE m.raw_text)
        # <<>>

\* [raised, text]
_body_markdown_for_msg(m) ==
    Bind(BodySource(m), LAMBDA src :
        IF src.raised THEN Raised ELSE Returned(normalize_markdown(src.text)))

\* the index of the first line break at or after j, or Len(s) + 1
RECURSIVE LineEnd(_, _)
LineEnd(s, j) ==
    IF j <= Len(s) /\ s[j] \notin {"\n", "\r"} THEN LineEnd(s, j + 1) ELSE j

RECURSIVE FirstLineFrom(_, _)
FirstLineFrom(text, j) ==
    IF j > Len(text) THEN <<>>
    ELSE LET e  == LineEnd(text, j)
             ln == Strip(Slice(text, j, e))
         IN  IF ln # <<>> THEN ln ELSE FirstLineFrom(text, e + 1)

_first_line(text) == FirstLineFrom(text, 1)

\* re.sub(r"\s{2,}", " ", s)
RECURSIVE CollapseSpaces(_, _)
CollapseSpaces(s, i) ==
    IF i > Len(s) THEN <<>>
    ELSE LET e == SpaceRunEnd(s, i)
         IN  IF e >= i + 2 THEN <<" ">> \o CollapseSpaces(s, e)
             ELSE <<s[i]>> \o CollapseSpaces(s, i + 1)

strip_emojis_and_spaces(s) ==
    Strip(CollapseSpaces(SelectSeq(s, LAMBDA t : t \notin Astral), 1))

Days == {DayKey(d) : d \in 1..9}

\* what slugify keeps of a token: lower-case letters, digits and "-"
SlugPieces(t) ==
    IF t = TME THEN <<"h", "t", "t", "p", "s", "-", "t", "-", "m", "e", "-">>
    ELSE IF t = "T" THEN <<"t">>
    ELSE IF t = "A" THEN <<"a">>
    ELSE IF t = "Fotoalbom" THEN <<"fotoalbom">>
    ELSE IF t \in Letter \cup Digit \cup Days \cup {"ot"} THEN <<t>>
    ELSE IF t \in Astral THEN <<>>
    ELSE <<"-">>

\* runs of "-" become one "-"; none is kept at either end
RECURSIVE CollapseDashes(_)
CollapseDashes(s) ==
    IF s = <<>> THEN <<>>
    ELSE IF s[1] = "-" /\ (Len(s) = 1 \/ s[2] = "-")
         THEN CollapseDashes(Tail(s))
         ELSE <<s[1]>> \o CollapseDashes(Tail(s))

TrimDashes(s) ==
    IF s # <<>> /\ s[1] = "-" THEN Tail(s) ELSE s

RECURSIVE JoinStr(_)
JoinStr(s) == IF s = <<>> THEN "" ELSE s[1] \o JoinStr(Tail(s))

SlugMaxLength == 80

slugify(title) ==
    Bind(TrimDashes(CollapseDashes(
             Flatten([k \in 1..Len(title) |-> SlugPieces(title[k])]))),
         LAMBDA kept : JoinStr(SubSeq(kept, 1, Min(Len(kept), SlugMaxLength))))

make_slug(title) ==
    Bind(slugify(title), LAMBDA s : IF s = "" THEN "post" ELSE s)

\* base, or base-2 when base is taken, whatever else is taken
SuffixedOnce(base, i, used) ==
    IF base \in used THEN base \o "-2" ELSE base

\* the first of base, base-2, base-3, ... that is not in used
RECURSIVE FreeSlug(_, _, _)
FreeSlug(base, i, used) ==
    LET s == IF i = 1 THEN base ELSE base \o "-" \o ToString(i)
    IN  IF s \in used THEN FreeSlug(base, i + 1, used) ELSE s

\* a reservation that returns base without looking at used
reserve_without_check(base, used) == [slug |-> base, used |-> used \cup {base}]

\* [slug, used]: the slug returned and the set after used.add(s)
reserve_unique_slug(base, used) ==
    Bind(FreeSlug(base, 1, used), LAMBDA s :
        [slug |-> s, used |-> used \cup {s}])

----------------------------------------------------------------------------
(* State. *)

VARIABLES
    pc,            \* the position of the program
    \* rewrite_internal_links and convert_one_with_links
    items,         \* the pieces the text given to the rewriter is made of
    id2relref,     \* the identifier map
    links,         \* the ExternalLink descriptors of the message
    skip_empty,    \* opts.skip_empty
    out1,          \* rewrite_internal_links(md, id2relref)
    out2,          \* rewrite_internal_links(out1, id2relref)
    conv,          \* the outcome of convert_one_with_links
    \* build_markdown_from_entities
    raw_text,      \* the raw text
    entities,      \* its annotations
    built,         \* the outcome of build_markdown_from_entities, with the
                   \* origin of every character
    msg_body_md,   \* the outcome of _body_markdown_for_msg
    \* run()
    all_msgs,      \* the records read from the export, in file order
    tz,            \* opts.tz
    dry_run,       \* opts.dry_run
    files,         \* the *.md files of the output directory: stem -> content
    buckets,       \* day -> records, in insertion order
    used_slugs,
    day_prepared,  \* day -> title, slug, date_str, msgs_sorted, in insertion
                   \* order
    days_todo,     \* the days Pass 2 has not assembled yet, in sorted order
    total,
    written,
    rewrites,      \* the maps that the calls of rewrite_internal_links in
                   \* Pass 2 were given
    run_no,        \* 1 for the first run of the program, 2 for the second
    runs,          \* for each run of the program so far: the stems it
                   \* started from, the documents it found and the
                   \* days it prepared
    \* copy_media_to_static and the chunks of a document
    media_paths,   \* the media paths of a day
    out_static_dir,\* the names of the files of the static directory
    image_placement, \* opts.image_placement
    joined_body,   \* the joined body of the day
    idx,           \* the number of media paths the loop has taken
    copied,        \* the copies made: source position and destination
    site_paths,    \* the links collected
    content_body,  \* <<>>, or the body of the document written
    \* reserve_unique_slug
    slug_base,     \* the base slug
    slug_used,     \* the set of slugs taken
    slug_reserved  \* the outcome: the slug returned and the set after it

rwVars == <<items, id2relref, links, skip_empty, out1, out2, conv>>
mdVars == <<raw_text, entities, built, msg_body_md>>
runVars == <<all_msgs, tz, dry_run, files, buckets, used_slugs, day_prepared,
             days_todo, total, written, rewrites, run_no, runs>>
vars == <<pc, items, id2relref, links, skip_empty, out1, out2, conv,
          raw_text, entities, built, msg_body_md,
          all_msgs, tz, dry_run, files, buckets, used_slugs, day_prepared,
          days_todo, total, written, rewrites, run_no, runs,
          media_paths, out_static_dir, image_placement, joined_body, idx,
          copied, site_paths, content_body,
          slug_base, slug_used, slug_reserved>>
mediaVars == <<media_paths, out_static_dir, image_placement, joined_body, idx,
               copied, site_paths, content_body>>
slugVars == <<slug_base, slug_used, slug_reserved>>

NoMap == [pid \in {} |-> ""]
NoConv == [raised |-> FALSE, skipped |-> FALSE, rewritten |-> <<>>,
           extras |-> <<>>, body_md |-> <<>>]

\* the part of the state that a specification does not use
IdleRW ==
    /\ items = <<>> /\ links = <<>> /\ skip_empty = FALSE
    /\ out1 = <<>> /\ out2 = <<>> /\ conv = NoConv
IdleMD ==
    /\ raw_text = <<>> /\ entities = <<>> /\ built = Returned(<<>>)
    /\ msg_body_md = Returned(<<>>)
IdleRun ==
    /\ all_msgs = <<>> /\ tz = "UTC" /\ dry_run = FALSE /\ files = NoMap
    /\ buckets = <<>> /\ used_slugs = {} /\ day_prepared = <<>>
    /\ days_todo = <<>> /\ total = 0 /\ written = 0 /\ rewrites = {}
    /\ run_no = 1 /\ runs = <<>>
IdleMedia ==
    /\ media_paths = <<>> /\ out_static_dir = {} /\ image_placement = "none"
    /\ joined_body = <<>> /\ idx = 0 /\ copied = <<>> /\ site_paths = <<>>
    /\ content_body = <<>>
IdleSlug ==
    /\ slug_base = "" /\ slug_used = {}
    /\ slug_reserved = [slug |-> "", used |-> {}]

----------------------------------------------------------------------------
(* The rewriter on its own: texts made of at most MaxItems pieces. *)

Url(ds) == <<TME, "h", "/">> \o ds

PostDigits == {<<"1">>, <<"1", "2">>}

\* the pieces: a character, or a reference to a post in one of the forms
Pieces ==
    [form : {"plain"}, ds : {<<>>}, ch : {"x", " ", "(", ")"}]
    \cup [form : {"md", "mdurl", "auto", "bare"}, ds : PostDigits, ch : {""}]

PieceText(it) ==
    CASE it.form = "plain" -> <<it.ch>>
      [] it.form = "md"    -> <<"[", "x", "]", "(">> \o Url(it.ds) \o <<")">>
      [] it.form = "mdurl" ->
             <<"[">> \o Url(it.ds) \o <<"]", "(">> \o Url(it.ds) \o <<")">>
      [] it.form = "auto"  -> <<"<">> \o Url(it.ds) \o <<">">>
      [] it.form = "bare"  -> Url(it.ds)

TextOf(its) == Flatten([k \in 1..Len(its) |-> PieceText(its[k])])

\* the destinations of posts 1 and 12; an identifier map of the model is a
\* restriction of it
Destinations == (1 :> "blog/a.md") @@ (12 :> "blog/b.md")
Maps == {[pid \in D |-> Destinations[pid]] : D \in SUBSET DOMAIN Destinations}

External == <<"h", "t", "t", "p", "s", ":", "/", "/", "e", ".", "x", "/", "1">>
ButtonLinks ==
    [url : {Url(ds) : ds \in PostDigits} \cup {External},
     source : {"button"}]

MessageOf(text, ents, lnks) ==
    [text_markdown |-> <<>>, raw_text |-> text, entities |-> ents,
     links |-> lnks]

InitRW ==
    /\ pc = "rewrite"
    /\ items \in SeqsUpTo(Pieces, MaxItems)
    /\ id2relref \in Maps
    /\ links = <<>> /\ skip_empty = FALSE
    /\ out1 = <<>> /\ out2 = <<>> /\ conv = NoConv
    /\ IdleMD /\ IdleRun /\ IdleMedia /\ IdleSlug

\* body_md = rewrite_internal_links(body_md, id2relref)
RewriteOnce ==
    /\ pc = "rewrite"
    /\ out1' = rewrite_internal_links(TextOf(items), id2relref)
    /\ pc' = "rewritten"
    /\ UNCHANGED <<items, id2relref, links, skip_empty, out2, conv>>
    /\ UNCHANGED <<mdVars, runVars, mediaVars, slugVars>>

\* the same call on its own output
RewriteTwice ==
    /\ pc = "rewritten"
    /\ out2' = rewrite_internal_links(out1, id2relref)
    /\ pc' = "rewritten twice"
    /\ UNCHANGED <<items, id2relref, links, skip_empty, out1, conv>>
    /\ UNCHANGED <<mdVars, runVars, mediaVars, slugVars>>

\* convert_one_with_links on a message whose raw text is the text
ConvertOneWithLinks ==
    /\ pc = "rewrite"
    /\ \E ls \in SeqsUpTo(ButtonLinks, MaxLinks), se \in BOOLEAN :
          /\ links' = ls
          /\ skip_empty' = se
          /\ conv' = convert_one_with_links(
                         MessageOf(TextOf(items), <<>>, ls), se, id2relref)
    /\ pc' = "converted"
    /\ UNCHANGED <<items, id2relref, out1, out2>>
    /\ UNCHANGED <<mdVars, runVars, mediaVars, slugVars>>

NextRW == RewriteOnce \/ RewriteTwice \/ ConvertOneWithLinks

SpecRW == InitRW /\ [][NextRW]_vars

----------------------------------------------------------------------------
(* The rewriter: C2, C6, C7, C8. *)

IsRef(it) == it.form # "plain"
RefIds(its) == {ParseInt(its[k].ds) : k \in {j \in 1..Len(its) : IsRef(its[j])}}

\* C2: rewrite_internal_links is idempotent: rewriting its own output with
\* the same map gives that output again.
C2_Idempotent == pc = "rewritten twice" => out2 = out1

\* C6: when no reference of the text has its identifier in the map, the
\* rewriter returns the text unchanged, whatever surrounds the references.
C6_UnresolvedUntouched ==
    (pc = "rewritten" /\ RefIds(items) \cap DOMAIN id2relref = {})
        => out1 = TextOf(items)

\* what C7 puts in the place of a piece whose identifier is in the map
OneLink(it, map) ==
    CASE it.form = "plain" -> <<it.ch>>
      [] it.form = "md"    -> LinkTo(<<"x">>, map[ParseInt(it.ds)])
      [] OTHER             -> LinkTo(Url(it.ds), map[ParseInt(it.ds)])

\* every reference ends the text or is followed by a blank, and the text has
\* no parenthesis of its own
Separated(its) ==
    \A k \in 1..Len(its) :
        /\ its[k].ch \notin {"(", ")"}
        /\ IsRef(its[k]) => (k = Len(its) \/ its[k + 1].ch = " ")

\* C7: each reference whose identifier is in the map is replaced by exactly
\* one link to the mapped destination; a marked-up link keeps its label, an
\* angle-bracket or bare URL gets the URL text as its label.
C7_OneLinkPerReference ==
    (pc = "rewritten" /\ Separated(items)
                      /\ RefIds(items) \subseteq DOMAIN id2relref)
        => out1 = Flatten([k \in 1..Len(items) |->
                              OneLink(items[k], id2relref)])

\* C8: after the rewrite passes of convert_one_with_links, the entries
\* appended are exactly those of the distinct identifiers of the message's
\* link descriptors that are in the map and whose URL does not occur in the
\* rewritten body.
C8_FallbackEntries ==
    (pc = "converted" /\ ~conv.skipped)
        => conv.extras = ExtrasFor(tg_ids_from_links_list(links),
                                   conv.rewritten, id2relref)

----------------------------------------------------------------------------
(* The builder on its own: a raw text and at most MaxEnts annotations.  The *)
(* annotations are inside the text and listed by offset, as the export      *)
(* lists them; an offset may fall inside a two-unit code point.             *)

MaxEnts == 2

Texts ==
    {<<"a", "b">>, <<"U+1F600", "a">>, <<"a", "U+1F600">>,
     <<"a", "U+1F600", "b">>, <<"[", "a", "]">>, <<"U+1F600", "U+1F680">>}

Kinds == {"MessageEntityBold", "MessageEntityTextUrl", "MessageEntityUrl"}

Entity(type, offset, length) ==
    [type |-> type, offset |-> <<offset>>, length |-> <<length>>,
     url |-> IF type = "MessageEntityTextUrl" THEN Url(<<"1">>) ELSE <<>>,
     language |-> <<>>]

EntitiesOf(text) ==
    {Entity(t, o, l) : t \in Kinds,
                       o \in 0..UnitLen(text), l \in 0..UnitLen(text)}

EntityLists(text) ==
    {es \in SeqsUpTo({e \in EntitiesOf(text) :
                         e.offset[1] + e.length[1] <= UnitLen(text)}, MaxEnts) :
        \A k \in 1..Len(es) - 1 : es[k].offset[1] <= es[k + 1].offset[1]}

InitMD ==
    /\ pc = "build"
    /\ raw_text \in Texts
    /\ entities \in EntityLists(raw_text)
    /\ built = Returned(<<>>)
    /\ msg_body_md = Returned(<<>>)
    /\ id2relref = NoMap
    /\ IdleRW /\ IdleRun /\ IdleMedia /\ IdleSlug

\* build_markdown_from_entities(raw_text, entities)
BuildMarkdown ==
    /\ pc = "build"
    /\ built' = BuildCells(Tag(raw_text, 1), entities)
    /\ pc' = "built"
    /\ UNCHANGED <<raw_text, entities, msg_body_md>>
    /\ UNCHANGED <<rwVars, runVars, mediaVars, slugVars>>

NextMD == BuildMarkdown

SpecMD == InitMD /\ [][NextMD]_vars

----------------------------------------------------------------------------
(* The builder: C4, C5. *)

StartOf(e) == e.offset[1]
EndOf(e) == e.offset[1] + e.length[1]

\* the offsets, in code units from 0, at which a code point of text starts
\* or the text ends
Boundaries(text) ==
    {0} \cup {Tag(text, 1)[k].src - 1 + Width(text[k]) : k \in 1..Len(text)}

Aligned(text, es) ==
    \A k \in 1..Len(es) :
        StartOf(es[k]) \in Boundaries(text) /\ EndOf(es[k]) \in Boundaries(text)

NonOverlapping(es) ==
    \A j, k \in 1..Len(es) :
        j < k => (EndOf(es[j]) <= StartOf(es[k]) \/ EndOf(es[k]) <= StartOf(es[j]))

\* the characters of the raw text that are left in cells, in their order
Originals(cells) == SelectSeq(cells, LAMBDA c : c.src # 0)

\* C4: for pairwise non-overlapping annotations, the text built holds every
\* character of the raw text once and in order, and everything else in it is
\* inserted markup.
C4_ContentPreserved ==
    (pc = "built" /\ Aligned(raw_text, entities) /\ NonOverlapping(entities))
        => /\ ~built.raised
           /\ Originals(built.text) = Tag(raw_text, 1)

\* the raw text with the replacement of each annotation put around the
\* characters of its range, read from left to right
RECURSIVE WrappedInOrder(_, _)
WrappedInOrder(cells, es) ==
    IF es = <<>> THEN cells
    ELSE LET e == Head(es)
         IN  SelectSeq(cells, LAMBDA c : c.src - 1 < StartOf(e))
                 \o Replacement(e, SelectSeq(cells,
                        LAMBDA c : StartOf(e) <= c.src - 1 /\ c.src - 1 < EndOf(e)))
                 \o WrappedInOrder(
                        SelectSeq(cells, LAMBDA c : c.src - 1 >= EndOf(e)),
                        Tail(es))

Wrappable ==
    /\ Aligned(raw_text, entities)
    /\ NonOverlapping(entities)
    /\ \A k \in 1..Len(entities) : entities[k].length[1] > 0

\* C5: offsets count UTF-16 code units: annotations that start and end at
\* code-point boundaries wrap exactly the code units of their range, and no
\* two-unit code point before, inside or after a range is split or changed.
C5_WrapsCodeUnits ==
    (pc = "built" /\ Wrappable)
        => /\ ~built.raised
           /\ built.text = WrappedInOrder(Tag(raw_text, 1), entities)

\* two annotations, a two-unit code point inside the first and before the
\* second
C5_Witness ==
    /\ pc = "built" /\ Wrappable
    /\ Len(entities) = 2
    /\ \E k \in 1..Len(raw_text) :
          /\ raw_text[k] \in Astral
          /\ StartOf(entities[1]) <= Tag(raw_text, 1)[k].src - 1
          /\ Tag(raw_text, 1)[k].src + 1 <= EndOf(entities[1])
          /\ EndOf(entities[1]) = StartOf(entities[2])
    /\ built.text = WrappedInOrder(Tag(raw_text, 1), entities)

----------------------------------------------------------------------------
(* run(): the operations of the two passes. *)

\* the records of a day as the export lists them
InExportOrder(recs) == recs

\* sorted(recs, key=lambda r: int(r["id"])): stable
RECURSIVE SortById(_)
SortById(recs) ==
    IF recs = <<>> THEN <<>>
    ELSE LET x == Head(recs)
             rest == SortById(Tail(recs))
         IN  SelectSeq(rest, LAMBDA y : y.id < x.id) \o <<x>>
                 \o SelectSeq(rest, LAMBDA y : y.id >= x.id)

\* buckets.setdefault(day, []).append(m): a dict keeps the order in which
\* its keys were first inserted
AddToBucket(bs, day, m) ==
    IF \E k \in 1..Len(bs) : bs[k].day = day
    THEN [k \in 1..Len(bs) |->
             IF bs[k].day = day
             THEN [day |-> day, recs |-> Append(bs[k].recs, m)]
             ELSE bs[k]]
    ELSE Append(bs, [day |-> day, recs |-> <<m>>])

\* the loop over all_msgs
RECURSIVE BucketsOf(_, _, _)
BucketsOf(bs, msgs, tz_name) ==
    IF msgs = <<>> THEN bs
    ELSE LET day == local_day_key(Head(msgs), tz_name)
         IN  BucketsOf(IF day = <<>> THEN bs
                       ELSE AddToBucket(bs, day[1], Head(msgs)),
                       Tail(msgs), tz_name)

\* a synthetic title that embeds the run it was made in, not the day alone
SyntheticTitleOfRun(day) ==
    <<"Fotoalbom", " ", "ot", " ", day, " ", ToString(run_no)>>

\* the title of a day that has no text; the two words stand for the Cyrillic
\* words of the source, transliterated as slugify does
SyntheticTitle(day) == <<"Fotoalbom", " ", "ot", " ", day>>

\* the title before stripping: [raised, text]
RECURSIVE TitleFrom(_)
TitleFrom(recs_sorted) ==
    IF recs_sorted = <<>> THEN Returned(<<>>)
    ELSE IF _has_text(Head(recs_sorted))
         THEN Bind(_body_markdown_for_msg(Head(recs_sorted)), LAMBDA body :
                  IF body.raised THEN Raised
                  ELSE Returned(_first_line(body.text)))
         ELSE TitleFrom(Tail(recs_sorted))

\* one turn of the loop of Pass 1: [raised, info, used]
PrepareBucket(day, recs, used, tz_name) ==
    Bind(SortById(recs), LAMBDA recs_sorted :
    Bind(TitleFrom(recs_sorted), LAMBDA first :
    Bind(strip_emojis_and_spaces(
             IF first.text = <<>> THEN SyntheticTitle(day) ELSE first.text),
         LAMBDA title :
    Bind(reserve_unique_slug(make_slug(title), used), LAMBDA reserved :
        [raised |-> first.raised,
         info |-> [day |-> day,
                   title |-> title,
                   slug |-> reserved.slug,
                   date_str |-> to_site_dt(recs_sorted[1].date_utc[1], tz_name),
                   msgs_sorted |-> recs_sorted],
         used |-> reserved.used]))))

\* id -> relref of the day's file: the loops after Pass 1; a later entry of
\* an identifier replaces an earlier one
IdsOf(info) == {info.msgs_sorted[j].id : j \in 1..Len(info.msgs_sorted)}

\* a map that holds only the first message of each day
MapOfFirstMessages(prepared) ==
    [pid \in {prepared[k].msgs_sorted[1].id : k \in 1..Len(prepared)} |->
        "blog/" \o prepared[CHOOSE k \in 1..Len(prepared) :
                                prepared[k].msgs_sorted[1].id = pid].slug
                \o ".md"]

MapOf(prepared) ==
    LET ids == UNION {IdsOf(prepared[k]) : k \in 1..Len(prepared)}
        last(pid) == CHOOSE k \in 1..Len(prepared) :
                         /\ pid \in IdsOf(prepared[k])
                         /\ \A j \in k + 1..Len(prepared) :
                               pid \notin IdsOf(prepared[j])
    IN  [pid \in ids |-> "blog/" \o prepared[last(pid)].slug \o ".md"]

\* a Pass 2 that takes the first prepared day alone
FirstDayOnly(prepared) ==
    IF prepared = <<>> THEN <<>> ELSE <<prepared[1].day>>

\* sorted(day_prepared.keys()): day keys of one month sort as their days
SortedDays(prepared) ==
    LET num(day) == CHOOSE d \in 1..9 : DayKey(d) = day
        before(k) == Cardinality({j \in 1..Len(prepared) :
                                     num(prepared[j].day) < num(prepared[k].day)})
    IN  [n \in 1..Len(prepared) |->
            prepared[CHOOSE k \in 1..Len(prepared) : before(k) = n - 1].day]

InfoOf(prepared, day) ==
    prepared[CHOOSE k \in 1..Len(prepared) : prepared[k].day = day]

\* a separator that is a blank line without a rule
BlankSeparator == <<"\n", "\n">>

\* ("\n\n---\n\n").join(parts)
RuleSeparator == <<"\n", "\n", "-", "-", "-", "\n", "\n">>

\* the parts of a day, joined: [raised, text, calls]; calls is the number of
\* calls of rewrite_internal_links made
RECURSIVE JoinedParts(_, _)
JoinedParts(msgs, map) ==
    IF msgs = <<>> THEN [raised |-> FALSE, text |-> <<>>, calls |-> 0]
    ELSE Bind(JoinedParts(Tail(msgs), map), LAMBDA rest :
         IF ~_has_text(Head(msgs)) THEN rest
         ELSE Bind(_body_markdown_for_msg(Head(msgs)), LAMBDA body :
              IF body.raised \/ rest.raised
              THEN [raised |-> TRUE, text |-> <<>>, calls |-> 0]
              ELSE Bind(Strip(rewrite_internal_links(body.text, map)),
                        LAMBDA md :
                   [raised |-> FALSE,
                    text |-> IF md = <<>> THEN rest.text
                             ELSE IF rest.text = <<>> THEN md
                             ELSE md \o RuleSeparator \o rest.text,
                    calls |-> rest.calls + 1])))

\* front + content_body of a day whose messages have no media
DocumentOf(info, joined) ==
    [title |-> info.title,
     date |-> info.date_str,
     body |-> RStrip(Strip(IF joined = <<>> THEN <<>>
                           ELSE joined \o <<"\n">>)) \o <<"\n">>]

----------------------------------------------------------------------------
(* run(): the export read, the options and the output directory. *)

MaxMsgs == 2

\* what a message of the model says: nothing (a photo), a blank line and a
\* title after an emoji, the same title in lower case with a button that
\* links to post 1, or a title and a line with the bare URL of post 2
Contents ==
    {[raw_text |-> <<>>, links |-> <<>>],
     [raw_text |-> <<" ", "\n", "U+1F600", " ", "T">>, links |-> <<>>],
     [raw_text |-> <<"t">>,
      links |-> <<[url |-> Url(<<"1">>), source |-> "button"]>>],
     [raw_text |-> <<"t", "\n">> \o Url(<<"2">>), links |-> <<>>]}

\* the dates of the model: none, or a day and an hour of January 2025 (UTC)
Dates == {<<>>, <<[day |-> 1, hour |-> 10]>>, <<[day |-> 1, hour |-> 22]>>,
          <<[day |-> 2, hour |-> 10]>>}

Earlier(d1, d2) ==
    \/ d1 = <<>> \/ d2 = <<>>
    \/ d1[1].day < d2[1].day
    \/ d1[1].day = d2[1].day /\ d1[1].hour <= d2[1].hour

Message(id, date_utc, content) ==
    [id |-> id, date_utc |-> date_utc, text_markdown |-> <<>>,
     raw_text |-> content.raw_text, entities |-> <<>>,
     links |-> content.links]

\* The export holds the messages of one channel, each identifier once, in
\* the order of the identifiers or in the reverse order; a later message
\* has no earlier date.
Exports ==
    UNION {
        {[k \in 1..n |-> Message(IF up THEN k ELSE n + 1 - k,
                                 ds[IF up THEN k ELSE n + 1 - k],
                                 cs[IF up THEN k ELSE n + 1 - k])] :
            ds \in {d \in [1..n -> Dates] :
                       \A j \in 1..n - 1 : Earlier(d[j], d[j + 1])},
            cs \in [1..n -> Contents],
            up \in BOOLEAN}
        : n \in 1..MaxMsgs}

\* the content of a document that is in the output directory before the run
OldDocument == [title |-> <<"o", "l", "d">>, date |-> <<>>, body |-> <<"\n">>]

OutputDirs == {[stem \in S |-> OldDocument] : S \in {{}, {"t"}}}

Init ==
    /\ pc = "read"
    /\ all_msgs \in Exports
    /\ tz \in {"UTC", "Europe/Moscow"}
    /\ dry_run \in BOOLEAN
    /\ files \in OutputDirs
    /\ buckets = <<>> /\ used_slugs = {} /\ day_prepared = <<>>
    /\ id2relref = NoMap
    /\ days_todo = <<>> /\ total = 0 /\ written = 0 /\ rewrites = {}
    /\ run_no = 1 /\ runs = <<>>
    /\ IdleRW /\ IdleMD /\ IdleMedia /\ IdleSlug

----------------------------------------------------------------------------
(* run(): the steps. *)

\* a run that takes no stem of the output directory as used
NoStems(fs) == {}

\* {p.stem for p in opts.out_md_dir.glob("*.md")}
ExistingStems(fs) == DOMAIN fs

\* all_msgs is grouped by day; used_slugs starts as the stems of the *.md
\* files of the output directory
GroupByDay ==
    /\ pc = "read"
    /\ buckets' = BucketsOf(<<>>, all_msgs, tz)
    /\ used_slugs' = ExistingStems(files)
    /\ day_prepared' = <<>>
    /\ id2relref' = NoMap
    /\ runs' = Append(runs, [used |-> DOMAIN files, files |-> files,
                             prepared |-> <<>>])
    /\ pc' = "pass 1"
    /\ UNCHANGED <<all_msgs, tz, dry_run, files, days_todo, total, written,
                   rewrites, run_no>>
    /\ UNCHANGED <<items, links, skip_empty, out1, out2, conv, mdVars,
                   mediaVars, slugVars>>

\* one turn of the loop of Pass 1, for the next bucket in the order of the
\* dict; an exception of the builder ends the program
PrepareDay ==
    /\ pc = "pass 1"
    /\ Len(day_prepared) < Len(buckets)
    /\ \E p \in {PrepareBucket(buckets[Len(day_prepared) + 1].day,
                               buckets[Len(day_prepared) + 1].recs,
                               used_slugs, tz)} :
           IF p.raised
           THEN pc' = "raised" /\ UNCHANGED <<used_slugs, day_prepared>>
           ELSE /\ day_prepared' = Append(day_prepared, p.info)
                /\ used_slugs' = p.used
                /\ pc' = pc
    /\ UNCHANGED <<all_msgs, tz, dry_run, files, buckets, id2relref,
                   days_todo, total, written, rewrites, run_no, runs>>
    /\ UNCHANGED <<items, links, skip_empty, out1, out2, conv, mdVars,
                   mediaVars, slugVars>>

\* after the loop of Pass 1: the map is built, Pass 2 starts
BuildMap ==
    /\ pc = "pass 1"
    /\ Len(day_prepared) = Len(buckets)
    /\ id2relref' = MapOf(day_prepared)
    /\ days_todo' = SortedDays(day_prepared)
    /\ total' = 0
    /\ written' = 0
    /\ pc' = "pass 2"
    /\ UNCHANGED <<all_msgs, tz, dry_run, files, buckets, used_slugs,
                   day_prepared, rewrites, run_no, runs>>
    /\ UNCHANGED <<items, links, skip_empty, out1, out2, conv, mdVars,
                   mediaVars, slugVars>>

\* one turn of the loop of Pass 2, for the next day in sorted order: the
\* body is assembled and, outside a dry run, the document is written
AssembleDay ==
    /\ pc = "pass 2"
    /\ days_todo # <<>>
    /\ \E info \in {InfoOf(day_prepared, Head(days_todo))} :
       \E joined \in {JoinedParts(info.msgs_sorted, id2relref)} :
           IF joined.raised
           THEN /\ pc' = "raised"
                /\ UNCHANGED <<files, days_todo, total, written, rewrites>>
           ELSE /\ rewrites' = IF joined.calls > 0
                               THEN rewrites \cup {id2relref} ELSE rewrites
                /\ total' = total + 1
                /\ files' = IF dry_run THEN files
                            ELSE (info.slug :> DocumentOf(info, joined.text))
                                     @@ files
                /\ written' = IF dry_run THEN written ELSE written + 1
                /\ days_todo' = Tail(days_todo)
                /\ pc' = pc
    /\ UNCHANGED <<all_msgs, tz, dry_run, buckets, used_slugs, day_prepared,
                   id2relref, run_no, runs>>
    /\ UNCHANGED <<items, links, skip_empty, out1, out2, conv, mdVars,
                   mediaVars, slugVars>>

\* the report; the program ends
Report ==
    /\ pc = "pass 2"
    /\ days_todo = <<>>
    /\ runs' = [runs EXCEPT ![run_no].prepared = day_prepared]
    /\ pc' = "done"
    /\ UNCHANGED <<all_msgs, tz, dry_run, files, buckets, used_slugs,
                   day_prepared, id2relref, days_todo, total, written,
                   rewrites, run_no>>
    /\ UNCHANGED <<items, links, skip_empty, out1, out2, conv, mdVars,
                   mediaVars, slugVars>>

\* the program is started again on the same export, with the same options
\* and the output directory as the first run left it
RunAgain ==
    /\ pc = "done"
    /\ run_no = 1
    /\ run_no' = 2
    /\ pc' = "read"
    /\ buckets' = <<>> /\ used_slugs' = {} /\ day_prepared' = <<>>
    /\ id2relref' = NoMap
    /\ days_todo' = <<>> /\ total' = 0 /\ written' = 0 /\ rewrites' = {}
    /\ UNCHANGED <<all_msgs, tz, dry_run, files, runs>>
    /\ UNCHANGED <<items, links, skip_empty, out1, out2, conv, mdVars,
                   mediaVars, slugVars>>

Next ==
    \/ GroupByDay
    \/ PrepareDay
    \/ BuildMap
    \/ AssembleDay
    \/ Report
    \/ RunAgain

Spec == Init /\ [][Next]_vars

----------------------------------------------------------------------------
(* run(): C1, C3, C9, C10. *)

\* the stems of the *.md files that the run in progress started from
StemsAtStart == runs[Len(runs)].used

\* C1: the slugs that Pass 1 gives to the day buckets differ from each other
\* and from the stem of every document that was in the output directory
\* before the run.
C1_UniqueSlugs ==
    \A j, k \in 1..Len(day_prepared) :
        /\ j # k => day_prepared[j].slug # day_prepared[k].slug
        /\ day_prepared[k].slug \notin StemsAtStart

\* two days with the same base slug, which a document of the directory has
C1_Witness ==
    /\ pc = "pass 2"
    /\ Len(day_prepared) = 2
    /\ make_slug(day_prepared[1].title) = make_slug(day_prepared[2].title)
    /\ make_slug(day_prepared[1].title) \in StemsAtStart

\* every message of every bucket is mapped to the file of its bucket
MapComplete ==
    /\ Len(day_prepared) = Len(buckets)
    /\ \A k \in 1..Len(buckets) :
           \A j \in 1..Len(buckets[k].recs) :
               /\ buckets[k].recs[j].id \in DOMAIN id2relref
               /\ id2relref[buckets[k].recs[j].id]
                      = "blog/" \o InfoOf(day_prepared, buckets[k].day).slug
                               \o ".md"

\* C3: every call of rewrite_internal_links in Pass 2 is given the complete
\* final map, no call is made before all buckets are named and mapped, and
\* the map does not change during Pass 2.
C3_CompleteMapAtEveryRewrite ==
    /\ [](/\ pc = "pass 2" => MapComplete
          /\ rewrites # {} => (rewrites = {id2relref} /\ MapComplete
                                   /\ pc \in {"pass 2", "done"}))
    /\ [][pc = "pass 2" => id2relref' = id2relref]_vars

\* a document of an earlier day holds the link to a post of a later day, whose
\* bucket was named after its own
C3_Witness ==
    /\ pc = "done"
    /\ Len(day_prepared) = 2
    /\ all_msgs[1].id = 1
    /\ 2 \in DOMAIN id2relref
    /\ \E k \in 1..2 :
          /\ IdsOf(day_prepared[k]) = {1}
          /\ day_prepared[k].slug \in DOMAIN files
          /\ Contains(files[day_prepared[k].slug].body, Relref(id2relref[2]))
          /\ id2relref[1] # id2relref[2]

\* the body of message m as Pass 2 puts it into the document
RewrittenBody(m) ==
    rewrite_internal_links(_body_markdown_for_msg(m).text, id2relref)

\* C9: when a message with text has a link descriptor to another post that
\* is in the map, and the URL of that post does not occur in the rewritten
\* body of the message, the document of its day holds a reference to the
\* mapped destination.
C9_ButtonReferencesKept ==
    (pc = "done" /\ ~dry_run)
        => \A k \in 1..Len(day_prepared) :
               \A j \in 1..Len(day_prepared[k].msgs_sorted) :
                   LET m == day_prepared[k].msgs_sorted[j]
                       ids == tg_ids_from_links_list(m.links)
                       body == files[day_prepared[k].slug].body
                   IN  _has_text(m)
                           => \A n \in 1..Len(ids) :
                                  (/\ ids[n] # m.id
                                   /\ ids[n] \in DOMAIN id2relref
                                   /\ ~MentionsPost(RewrittenBody(m), ids[n]))
                                      => \/ Contains(body, Relref(id2relref[ids[n]]))
                                         \/ Contains(body, EntryRef(id2relref[ids[n]]))

\* the day keys with their titles, and with their slugs, of a run
TitlesOf(prepared) ==
    {<<prepared[k].day, prepared[k].title>> : k \in 1..Len(prepared)}
SlugsOf(prepared) ==
    {<<prepared[k].day, prepared[k].slug>> : k \in 1..Len(prepared)}

----------------------------------------------------------------------------
(* run(): the order of the buckets, C11. *)

\* the day of the month of a day key
DayNum(day) == CHOOSE d \in 1..9 : DayKey(d) = day

\* C11: both passes take the buckets in ascending order of their day keys:
\* Pass 1 reserves the slug of a day before the slug of every later day, and
\* the days that Pass 2 has still to assemble are in ascending order.
C11_AscendingDayOrder ==
    /\ \A j, k \in 1..Len(day_prepared) :
           j < k => DayNum(day_prepared[j].day) < DayNum(day_prepared[k].day)
    /\ \A j, k \in 1..Len(days_todo) :
           j < k => DayNum(days_todo[j]) < DayNum(days_todo[k])

----------------------------------------------------------------------------
(* The builder: annotations without content, C12. *)

\* an annotation that has no content, or lacks its start or its length
Skipped(e) == e.offset = <<>> \/ e.length = <<>> \/ e.length[1] = 0

\* C12: an annotation of length 0, or without a start or a length, is
\* skipped: the builder does not raise because of it and returns what it
\* returns for the remaining annotations alone.
C12_SkipsEmptyAnnotations ==
    pc = "built"
        => built = BuildCells(Tag(raw_text, 1),
                              SelectSeq(entities, LAMBDA e : ~Skipped(e)))

----------------------------------------------------------------------------
(* run(): the title of a bucket, C13. *)

\* the first line of text that is not blank, without the blanks around it;
\* <<>> when every line is blank
FirstNonEmptyLine(text) ==
    LET starts == {1} \cup {j + 1 : j \in {i \in 1..Len(text) : text[i] = "\n"}}
        line(a) == Strip(SubSeq(text, a,
                       CHOOSE e \in a - 1..Len(text) :
                           /\ \A i \in a..e : text[i] # "\n"
                           /\ e = Len(text) \/ text[e + 1] = "\n"))
        filled == {a \in starts : a <= Len(text) /\ line(a) # <<>>}
    IN  IF filled = {} THEN <<>>
        ELSE line(CHOOSE a \in filled : \A b \in filled : a <= b)

\* the positions in recs of the messages that have text
WithText(recs) == {j \in 1..Len(recs) : _has_text(recs[j])}

\* the message of recs with the lowest identifier among those with text
LowestWithText(recs) ==
    recs[CHOOSE j \in WithText(recs) :
             \A k \in WithText(recs) : recs[j].id <= recs[k].id]

----------------------------------------------------------------------------
(* run(): one document per bucket, C14. *)

\* the documents that the output directory held when the run in progress
\* started
FilesAtStart == runs[Len(runs)].files

\* C14: a run that is not a dry run writes one document per bucket, each
\* once and each to a file of its own; a dry run counts every bucket as
\* processed and creates or modifies no document at any time.
C14_OneDocumentPerBucket ==
    /\ (dry_run /\ runs # <<>>) => (files = FilesAtStart /\ written = 0)
    /\ pc = "done"
           => /\ total = Len(buckets)
              /\ ~dry_run
                     => /\ written = Len(buckets)
                        /\ DOMAIN files = DOMAIN FilesAtStart
                               \cup {day_prepared[k].slug :
                                         k \in 1..Len(day_prepared)}
                        /\ Cardinality(DOMAIN files)
                               = Cardinality(DOMAIN FilesAtStart) + Len(buckets)

\* the second run, not a dry run, has written the documents of two days
C14_Witness ==
    /\ pc = "done" /\ ~dry_run /\ run_no = 2
    /\ Len(buckets) = 2
    /\ written = 2
    /\ Cardinality(DOMAIN files) >= 4

----------------------------------------------------------------------------
(* run(): the body of a document, C15. *)

\* a horizontal rule between two blank lines
HorizontalRule == <<"\n", "\n", "-", "-", "-", "\n", "\n">>

\* the rewritten bodies, without the blanks around them, of the messages of
\* recs whose identifier is in ids, in ascending order of the identifiers;
\* a message whose body is empty gives none
RECURSIVE BodiesOf(_, _)
BodiesOf(recs, ids) ==
    IF ids = {} THEN <<>>
    ELSE \* the lowest identifier first
         LET lo == CHOOSE i \in ids : \A j \in ids : i <= j
         IN  Bind(Strip(RewrittenBody(
                      recs[CHOOSE n \in 1..Len(recs) : recs[n].id = lo])),
                  LAMBDA body :
                      (IF body = <<>> THEN <<>> ELSE <<body>>)
                          \o BodiesOf(recs, ids \ {lo}))

\* the bodies bs with one rule between each two of them
JoinedWithRules(bs) ==
    IF bs = <<>> THEN <<>>
    ELSE bs[1] \o Flatten([n \in 1..Len(bs) - 1 |->
                              HorizontalRule \o bs[n + 1]])

----------------------------------------------------------------------------
(* copy_media_to_static and the chunks of a day's document.  A media path  *)
(* is a record: what is at the path (nothing, a file or a directory) and   *)
(* the suffix of its name.                                                  *)

MaxMedia == 2

IMG_EXTS == {".jpg", ".jpeg", ".png", ".webp", ".gif", ".bmp"}

\* str.lower() of a suffix
Lower(ext) == IF ext = ".JPG" THEN ".jpg" ELSE ext

\* ts_for_name.strftime("%Y-%m-%d-%H-%M-%S") and the slug of the day
Stamp == "2025-01-01-10-00-00"
SlugForName == "t"

\* the first of stem + suffix, stem-2 + suffix, stem-3 + suffix, ... that
\* is not the name of a file of the directory
RECURSIVE UniqueName(_, _, _, _)
UniqueName(stem, suffix, i, existing) ==
    LET name == IF i = 1 THEN stem \o suffix
                ELSE stem \o "-" \o ToString(i) \o suffix
    IN  IF name \in existing THEN UniqueName(stem, suffix, i + 1, existing)
        ELSE name

ensure_unique_path(stem, suffix, existing) ==
    UniqueName(stem, suffix, 1, existing)

\* one turn of the loop of copy_media_to_static, for the path m at position
\* n: [skipped, raised, dst, link]; shutil.copy2 raises for a directory
CopyOne(m, n, existing) ==
    IF m.at = "nothing"
    THEN [skipped |-> TRUE, raised |-> FALSE, dst |-> "", link |-> <<>>]
    ELSE IF m.at = "directory"
    THEN [skipped |-> FALSE, raised |-> TRUE, dst |-> "", link |-> <<>>]
    ELSE Bind(ensure_unique_path(
                  Stamp \o "-" \o SlugForName \o "-" \o ToString(n),
                  Lower(m.suffix), existing),
              LAMBDA dst :
                  [skipped |-> FALSE, raised |-> FALSE, dst |-> dst,
                   link |-> IF Lower(m.suffix) \in IMG_EXTS
                            THEN <<"/images/" \o dst>> ELSE <<>>])

\* ![](link)
ImageLine(link) == "![](" \o link \o ")"

\* the chunks of the document, as lines
Chunks(where, body, image_links) ==
    (IF where = "top" /\ image_links # <<>>
     THEN [n \in 1..Len(image_links) |-> ImageLine(image_links[n])] \o <<"">>
     ELSE <<>>)
    \o (IF body # <<>> THEN <<JoinStr(Strip(body))>> ELSE <<>>)
    \o (IF where = "bottom" /\ image_links # <<>>
        THEN (IF body # <<>> THEN <<"">> ELSE <<>>)
                 \o [n \in 1..Len(image_links) |-> ImageLine(image_links[n])]
        ELSE <<>>)

\* ("\n".join(chunks)).rstrip() + "\n", as lines: no empty line is left at
\* the end
RECURSIVE WithoutEmptyEnd(_)
WithoutEmptyEnd(lines) ==
    IF lines # <<>> /\ lines[Len(lines)] = ""
    THEN WithoutEmptyEnd(SubSeq(lines, 1, Len(lines) - 1))
    ELSE lines

ContentBody(where, body, image_links) ==
    WithoutEmptyEnd(Chunks(where, body, image_links))

MediaPaths ==
    {[at |-> "nothing", suffix |-> ".jpg"],
     [at |-> "file", suffix |-> ".jpg"],
     [at |-> "file", suffix |-> ".JPG"],
     [at |-> "file", suffix |-> ".mp4"],
     [at |-> "file", suffix |-> ""],
     [at |-> "directory", suffix |-> ""]}

\* what the static directory holds before the run
StaticDirs ==
    {{}, {Stamp \o "-t-1.jpg"}, {Stamp \o "-t-1.jpg", Stamp \o "-t-1-2.jpg"}}

InitMedia ==
    /\ pc = "copy"
    /\ media_paths \in SeqsUpTo(MediaPaths, MaxMedia)
    /\ out_static_dir \in StaticDirs
    /\ image_placement \in {"top", "bottom", "none"}
    /\ joined_body \in {<<>>, <<"T", "\n">>}
    /\ idx = 0 /\ copied = <<>> /\ site_paths = <<>> /\ content_body = <<>>
    /\ id2relref = NoMap
    /\ IdleRW /\ IdleMD /\ IdleRun /\ IdleSlug

\* one turn of the loop over media_paths
CopyMedia ==
    /\ pc = "copy"
    /\ idx < Len(media_paths)
    /\ \E c \in {CopyOne(media_paths[idx + 1], idx + 1, out_static_dir)} :
          IF c.raised
          THEN /\ pc' = "raised"
               /\ UNCHANGED <<idx, out_static_dir, copied, site_paths>>
          ELSE /\ pc' = pc
               /\ idx' = idx + 1
               /\ out_static_dir' = IF c.skipped THEN out_static_dir
                                     ELSE out_static_dir \cup {c.dst}
               /\ copied' = IF c.skipped THEN copied
                             ELSE Append(copied, [src |-> idx + 1,
                                                  dst |-> c.dst])
               /\ site_paths' = site_paths \o c.link
    /\ UNCHANGED <<media_paths, image_placement, joined_body, content_body>>
    /\ UNCHANGED <<rwVars, mdVars, runVars, slugVars>>

\* copy_media_to_static has returned: the chunks are put together and the
\* document is produced
ProduceDocument ==
    /\ pc = "copy"
    /\ idx = Len(media_paths)
    /\ content_body' = <<ContentBody(image_placement, joined_body,
                                      site_paths)>>
    /\ pc' = "produced"
    /\ UNCHANGED <<media_paths, out_static_dir, image_placement, joined_body,
                   idx, copied, site_paths>>
    /\ UNCHANGED <<rwVars, mdVars, runVars, slugVars>>

NextMedia == CopyMedia \/ ProduceDocument

SpecMedia == InitMedia /\ [][NextMedia]_vars

----------------------------------------------------------------------------
(* Media: C16. *)

\* the positions of the media paths at which there is a file
FilesAmong(paths) == {n \in 1..Len(paths) : paths[n].at = "file"}

\* C16: a media path at which there is no file does not end the run: the
\* loop goes on, every path at which there is a file is copied once, links
\* are made for copied files only, and the document is produced.
C16_MissingMediaSkipped ==
    /\ pc # "raised"
    /\ \A n \in 1..Len(copied) : copied[n].src \in FilesAmong(media_paths)
    /\ Len(site_paths) <= Len(copied)
    /\ pc = "produced"
           => /\ {copied[n].src : n \in 1..Len(copied)}
                     = FilesAmong(media_paths)
              /\ Len(copied) = Cardinality(FilesAmong(media_paths))
              /\ content_body # <<>>

----------------------------------------------------------------------------
(* run(): the documents that were there before, C17. *)

\* C17: a run leaves every document that was in the output directory when
\* it started as it was, and every document it writes goes to a path at
\* which there was no document when the run started.
C17_ExistingDocumentsKept ==
    /\ [](runs # <<>>
             => \A stem \in DOMAIN FilesAtStart :
                    stem \in DOMAIN files /\ files[stem] = FilesAtStart[stem])
    /\ [][(pc = "pass 2" /\ written' # written)
              => InfoOf(day_prepared, Head(days_todo)).slug
                     \notin DOMAIN FilesAtStart]_vars

\* the second run has written the documents of two days beside the old
\* document and the two documents of the first run, all with the same base
\* slug
C17_Witness ==
    /\ pc = "done" /\ ~dry_run /\ run_no = 2
    /\ Len(day_prepared) = 2
    /\ Cardinality(DOMAIN FilesAtStart) = 3
    /\ \A k \in 1..2 : make_slug(day_prepared[k].title) \in DOMAIN FilesAtStart
    /\ written = 2

----------------------------------------------------------------------------
(* The rewriter: the passes and the identifier, C18 and C19. *)

HasForm(its, form) == \E k \in 1..Len(its) : its[k].form = form

\* C18: the passes run in the order marked-up, angle-bracket, bare, each
\* over the result of the one before, and a later pass leaves what an
\* earlier pass has made as it is: a text without angle-bracket references
\* comes out of the second pass as it went in, and a text without bare
\* references comes out of the third pass as it went in.
C18_LaterPassKeepsEarlierOutput ==
    pc = "rewritten"
        => \E after_md \in {MdPass(TextOf(items), 1, id2relref)} :
           \E after_auto \in {AutoPass(after_md, 1, id2relref)} :
               /\ out1 = BarePass(after_auto, 1, id2relref)
               /\ ~HasForm(items, "auto") => after_auto = after_md
               /\ ~HasForm(items, "bare") => out1 = after_auto

\* is the token at index e of s, if there is one, something else than a
\* digit
DigitsEndAt(s, e) == ~(e <= Len(s) /\ s[e] \in Digit)

\* C19: wherever one of the three patterns matches in the text, the
\* identifier it reads is the whole run of digits at the end of the URL: no
\* digit follows the URL matched.
C19_WholeDigitRun ==
    pc = "rewritten"
        => \E text \in {TextOf(items)} :
               \A i \in 1..Len(text) :
                   /\ \E m \in {TG_MD_LINK_RE(text, i)} :
                          m.ok => DigitsEndAt(text, m.end - 1)
                   /\ \E m \in {TG_AUTOLINK_RE(text, i)} :
                          m.ok => DigitsEndAt(text, m.end - 1)
                   /\ \E m \in {TG_BARE_URL_RE(text, i)} :
                          m.ok => DigitsEndAt(text, m.end)

----------------------------------------------------------------------------
(* reserve_unique_slug on its own: a base slug and a set of slugs taken,   *)
(* with suffixes up to MaxSuffix.                                          *)

MaxSuffix == 3

Bases == {"t", "post"}

\* base-k
Suffixed(b, k) == b \o "-" \o ToString(k)

SlugNames == Bases \cup {Suffixed(b, k) : b \in Bases, k \in 2..MaxSuffix}

InitSlug ==
    /\ pc = "reserve"
    /\ slug_base \in Bases
    /\ slug_used \in SUBSET SlugNames
    /\ slug_reserved = [slug |-> "", used |-> {}]
    /\ id2relref = NoMap
    /\ IdleRW /\ IdleMD /\ IdleRun /\ IdleMedia

\* final_slug = reserve_unique_slug(base_slug, used_slugs)
ReserveUniqueSlug ==
    /\ pc = "reserve"
    /\ slug_reserved' = reserve_unique_slug(slug_base, slug_used)
    /\ pc' = "reserved"
    /\ UNCHANGED <<slug_base, slug_used>>
    /\ UNCHANGED <<rwVars, mdVars, runVars, mediaVars>>

NextSlug == ReserveUniqueSlug

SpecSlug == InitSlug /\ [][NextSlug]_vars

\* C20: reserve_unique_slug returns base when base is not taken, else
\* base-k for the smallest k >= 2 such that base-k is not taken; the set
\* after the call is the set before it with the slug returned and nothing
\* else added.
C20_SmallestFreeSuffix ==
    pc = "reserved"
        => /\ IF slug_base \notin slug_used
              THEN slug_reserved.slug = slug_base
              ELSE \E k \in 2..MaxSuffix + 1 :
                       /\ slug_reserved.slug = Suffixed(slug_base, k)
                       /\ Suffixed(slug_base, k) \notin slug_used
                       /\ \A j \in 2..k - 1 :
                              Suffixed(slug_base, j) \in slug_used
           /\ slug_reserved.used = slug_used \cup {slug_reserved.slug}
           /\ slug_reserved.slug \notin slug_used

\* the base and base-2 are taken, and so is a slug of another base: base-3
\* is returned
C20_Witness ==
    /\ pc = "reserved"
    /\ slug_base = "t"
    /\ {"t", "t-2", "post"} \subseteq slug_used
    /\ slug_reserved.slug = "t-3"

----------------------------------------------------------------------------
(* One message with annotations through the day pipeline: its body as      *)
(* run() makes it, and its text built and then rewritten.                  *)

\* raw texts as the Message record stores them; two begin with a blank
MsgTexts ==
    {<<"a", "b">>, <<" ", "a", "b">>, <<"[", "a", "]">>,
     <<" ", "U+1F600", "a">>}

InitMsg ==
    /\ pc = "message"
    /\ raw_text \in MsgTexts
    /\ entities \in EntityLists(raw_text)
    /\ id2relref \in {m \in Maps : DOMAIN m \subseteq {1}}
    /\ built = Returned(<<>>)
    /\ msg_body_md = Returned(<<>>)
    /\ items = <<>> /\ links = <<>> /\ skip_empty = FALSE
    /\ out1 = <<>> /\ out2 = <<>> /\ conv = NoConv
    /\ IdleRun /\ IdleMedia /\ IdleSlug

\* md = _body_markdown_for_msg(m)
BodyMarkdownForMsg ==
    /\ pc = "message"
    /\ msg_body_md' = _body_markdown_for_msg(
                          MessageOf(raw_text, entities, <<>>))
    /\ pc' = "body"
    /\ UNCHANGED <<raw_text, entities, built>>
    /\ UNCHANGED <<rwVars, runVars, mediaVars, slugVars>>

\* rewrite_internal_links(build_markdown_from_entities(T, A), M); nothing
\* is rewritten when the builder raises
BuildAndRewrite ==
    /\ pc = "message"
    /\ \E b \in {BuildCells(Tag(raw_text, 1), entities)} :
          /\ built' = b
          /\ out1' = IF b.raised THEN <<>>
                     ELSE rewrite_internal_links(Plain(b.text), id2relref)
    /\ pc' = "linked"
    /\ UNCHANGED <<raw_text, entities, msg_body_md>>
    /\ UNCHANGED <<items, id2relref, links, skip_empty, out2, conv>>
    /\ UNCHANGED <<runVars, mediaVars, slugVars>>

NextMsg == BodyMarkdownForMsg \/ BuildAndRewrite

SpecMsg == InitMsg /\ [][NextMsg]_vars

----------------------------------------------------------------------------
(* A message through the pipeline: C21, C22. *)

\* C21: in the day pipeline the markup of an annotation wraps the code
\* units of its range in the raw text as the record stores it: the body is
\* the stored text with each annotation put around its range, normalized,
\* also when the stored text begins with a blank.
C21_OffsetsOnStoredText ==
    (pc = "body" /\ Wrappable /\ entities # <<>>)
        => /\ ~msg_body_md.raised
           /\ msg_body_md.text
                  = normalize_markdown(
                        Plain(WrappedInOrder(Tag(raw_text, 1), entities)))

\* does part occur in s
HasPart(s, part) ==
    \E i \in 1..Len(s) - Len(part) + 1 :
        SubSeq(s, i, i + Len(part) - 1) = part

\* the label of annotation e as the builder writes it
LabelOf(text, e) ==
    Plain(EscapeBrackets(SelectSeq(Tag(text, 1),
              LAMBDA c : StartOf(e) <= c.src - 1 /\ c.src - 1 < EndOf(e))))

\* C22: when the text is built and then rewritten, every text-link
\* annotation whose URL is the URL of a post in the map has become a link
\* to the mapped destination with its label, whatever the label holds,
\* brackets included.
C22_TextLinksResolved ==
    (pc = "linked" /\ Wrappable /\ 1 \in DOMAIN id2relref)
        => \A k \in 1..Len(entities) :
               entities[k].type = "MessageEntityTextUrl"
                   => HasPart(out1, LinkTo(LabelOf(raw_text, entities[k]),
                                           id2relref[1]))

----------------------------------------------------------------------------
(* Pass 1 of run() on the messages of one day, with records that carry     *)
(* pictographs, annotations and a text_markdown field.                     *)

\* what a record says: nothing (a photo), a title, a pictograph alone, a
\* pictograph on the first line and a title on the second, a text_markdown
\* with annotations and no raw text, and a raw text with an annotation
TitleContents ==
    {[text_markdown |-> <<>>, raw_text |-> <<>>, entities |-> <<>>],
     [text_markdown |-> <<>>, raw_text |-> <<"T">>, entities |-> <<>>],
     [text_markdown |-> <<>>, raw_text |-> <<"U+1F600">>, entities |-> <<>>],
     [text_markdown |-> <<>>, raw_text |-> <<"U+1F600", "\n", "T">>,
      entities |-> <<>>],
     [text_markdown |-> <<"T">>, raw_text |-> <<>>,
      entities |-> <<Entity("MessageEntityBold", 0, 1)>>],
     [text_markdown |-> <<>>, raw_text |-> <<"a", "b">>,
      entities |-> <<Entity("MessageEntityBold", 0, 1)>>]}

TitleMessage(id, content) ==
    [id |-> id, date_utc |-> <<[day |-> 1, hour |-> 10]>>,
     text_markdown |-> content.text_markdown,
     raw_text |-> content.raw_text, entities |-> content.entities,
     links |-> <<>>]

\* exports of one day, in the order of the identifiers or in the reverse
\* order
TitleExports ==
    UNION {
        {[k \in 1..n |-> TitleMessage(IF up THEN k ELSE n + 1 - k,
                                       cs[IF up THEN k ELSE n + 1 - k])] :
            cs \in [1..n -> TitleContents], up \in BOOLEAN}
        : n \in 1..MaxMsgs}

InitTitle ==
    /\ pc = "read"
    /\ all_msgs \in TitleExports
    /\ tz \in {"UTC", "Europe/Moscow"}
    /\ dry_run = FALSE
    /\ files \in {[stem \in S |-> OldDocument] : S \in {{}, {"post"}}}
    /\ buckets = <<>> /\ used_slugs = {} /\ day_prepared = <<>>
    /\ id2relref = NoMap
    /\ days_todo = <<>> /\ total = 0 /\ written = 0 /\ rewrites = {}
    /\ run_no = 1 /\ runs = <<>>
    /\ IdleRW /\ IdleMD /\ IdleMedia /\ IdleSlug

NextTitle == GroupByDay \/ PrepareDay

SpecTitle == InitTitle /\ [][NextTitle]_vars

\* C23: every bucket that Pass 1 has prepared has a title that is not
\* empty, also when the first line of its first message with text holds
\* pictographs alone, and when that message's body is empty.
C23_TitleNotEmpty ==
    \A k \in 1..Len(day_prepared) : day_prepared[k].title # <<>>

====
